---------------------------- MODULE Spec2Model ----------------------------
(***************************************************************************)
(* Model of the Styles gatherer of lighthouse                              *)
(* (lighthouse-core/gather/gatherers/styles.js): the tracker of the        *)
(* stylesheets active on a page, its add/remove notification handlers,     *)
(* the asynchronous fetch-then-parse chain of each stylesheet, and the     *)
(* artifact built when the pass ends.                                      *)
(*                                                                         *)
(* JavaScript objects are modelled by reference: every stylesheet-added    *)
(* notification carries a fresh styleHeader object, named by a handle      *)
(* 1..MaxAdds; arrays hold handles, `headers` is the heap that gives each  *)
(* handle its fields.  Texts are sequences of one-character strings.       *)
(***************************************************************************)
EXTENDS Integers, Sequences, FiniteSets, TLC

(* ------------------------------ bounds --------------------------------- *)
\* number of stylesheet-added notifications delivered in one behaviour
MaxAdds == 2
\* styleSheetIds the protocol may announce: 1..MaxIds
MaxIds == 2
MaxNodeLen == 4

Handles == 1..MaxAdds
Ids == 1..MaxIds
Origins == {"regular", "injected"}

(* ------------------------------ texts ---------------------------------- *)
IsSpace(c) == c \in {" ", "\n", "\t"}

RECURSIVE TrimLeft(_)
TrimLeft(s) ==
  IF s = <<>> THEN <<>>
  ELSE IF IsSpace(Head(s)) THEN TrimLeft(Tail(s)) ELSE s

RECURSIVE TrimRight(_)
TrimRight(s) ==
  IF s = <<>> THEN <<>>
  ELSE IF IsSpace(s[Len(s)]) THEN TrimRight(SubSeq(s, 1, Len(s) - 1)) ELSE s

\* String.prototype.trim
Trim(s) == TrimRight(TrimLeft(s))

\* String.prototype.split(sep) for a one-character separator: the pieces
\* between the separators, always at least one piece
RECURSIVE Split(_, _)
Split(s, sep) ==
  IF \A i \in 1..Len(s) : s[i] # sep THEN <<s>>
  ELSE LET k == CHOOSE i \in 1..Len(s) :
                  s[i] = sep /\ \A j \in 1..(i - 1) : s[j] # sep
       IN <<SubSeq(s, 1, k - 1)>> \o Split(SubSeq(s, k + 1, Len(s)), sep)

\* the stylesheet texts CSS.getStyleSheetText answers with
CssBox == <<"a", "{", "d", ":", "b", "}">>
CssFlex == <<"b", "{", "d", ":", "f", ";", "c", ":", "r", "}">>
CssBad == <<"a", "{", "c">>
SheetTexts == {CssBox, CssFlex, CssBad}

(* ------------------------------ parser --------------------------------- *)
\* WebInspector.SCSSParser.parse followed by traverseByType('declaration'):
\* the declaration nodes of the text in document order, each with its text,
\* its zero-based source range (end exclusive) and the selector of its rule.
\* A text that ends inside a rule block is malformed.
ScanInit ==
  [mode |-> "sel", line |-> 0, col |-> 0, sel |-> <<>>, decl |-> <<>>,
   sl |-> 0, sc |-> 0, nodes |-> <<>>]

EmitNode(st) ==
  IF Trim(st.decl) = <<>> THEN st.nodes
  ELSE Append(st.nodes,
         [text |-> TrimRight(st.decl),
          declarationRange |-> [startLine |-> st.sl, startColumn |-> st.sc,
                                endLine |-> st.line, endColumn |-> st.col],
          selectors |-> Trim(st.sel)])

ScanStep(st, c) ==
  LET adv == IF c = "\n"
             THEN [st EXCEPT !.line = st.line + 1, !.col = 0]
             ELSE [st EXCEPT !.col = st.col + 1]
  IN IF st.mode = "sel"
     THEN IF c = "{" THEN [adv EXCEPT !.mode = "decl", !.decl = <<>>]
          ELSE [adv EXCEPT !.sel = Append(st.sel, c)]
     ELSE IF c \in {";", "}"}
          THEN [adv EXCEPT !.nodes = EmitNode(st), !.decl = <<>>,
                           !.mode = IF c = "}" THEN "sel" ELSE "decl",
                           !.sel = IF c = "}" THEN <<>> ELSE st.sel]
          ELSE IF st.decl = <<>> /\ IsSpace(c) THEN adv
          ELSE IF st.decl = <<>>
               THEN [adv EXCEPT !.decl = <<c>>, !.sl = st.line, !.sc = st.col]
               ELSE [adv EXCEPT !.decl = Append(st.decl, c)]

RECURSIVE Scan(_, _)
Scan(st, s) == IF s = <<>> THEN st ELSE Scan(ScanStep(st, Head(s)), Tail(s))

ParseThrows(text) == Scan(ScanInit, text).mode = "decl"
ParseTree(text) == Scan(ScanInit, text).nodes

(* ------------------------ getCSSPropsInStyleSheet ----------------------- *)
\* const [name, val] = node.toString().split(':').map(item => item.trim())
\* val is undefined when the text has no colon
DeclProperty(nodeText) ==
  LET items == Split(nodeText, ":")
  IN [name |-> Trim(items[1]),
      valDefined |-> Len(items) >= 2,
      val |-> IF Len(items) >= 2 THEN Trim(items[2]) ELSE <<>>]

getCSSPropsInStyleSheet(parseTree) ==
  [i \in 1..Len(parseTree) |->
     [property |-> DeclProperty(parseTree[i].text),
      declarationRange |-> parseTree[i].declarationRange,
      selector |-> parseTree[i].selectors]]

(* ------------------------------- state --------------------------------- *)
VARIABLES
  driver,         \* this.driver: "undefined" until beginStylesCollect sets it
  subscribed,     \* driver side: events the tracker's bound handler listens to
  domains,        \* driver side: instrumentation domains currently enabled
  activeStyles,   \* this._activeStyles: the one array, a sequence of handles
  artifact,       \* this.artifact: unset, the sentinel -1, or a fresh array
  headers,        \* heap: the styleHeader object of each add notification
  chain,          \* per handle: state of its getStyleSheetText promise chain
  nAdded,         \* number of add notifications handled so far
  begun,          \* beginStylesCollect calls so far: 0, 1, or 2 for "more"
  returned,       \* what the last direct caller of endStylesCollect got
  removedResolved, \* handles whose id was removed after their chain resolved
  earlyRemoved,   \* handles whose id was removed while their chain was pending
  query,          \* audits: propName and propVal of the last filter call
  result,         \* audits: the array the last filter call returned
  auditResult,    \* audits: the AuditResult of the last audit
  exIn,           \* excerpt: content and declaration handed to the formatter
  exOut,          \* excerpt: the block the formatter returned
  treeIn,         \* declaration extraction: the declaration nodes of a tree
  propsOut        \* declaration extraction: what getCSSPropsInStyleSheet gave

\* the variables of the audits and of the two functions checked on their own
auditVars == <<query, result, auditResult>>
extractVars == <<exIn, exOut>>
propsVars == <<treeIn, propsOut>>

vars == <<driver, subscribed, domains, activeStyles, artifact, headers, chain,
          nAdded, begun, returned, removedResolved, earlyRemoved,
          auditVars, extractVars, propsVars>>

\* the variables the tracker itself owns or reaches through its driver
trackerVars == <<driver, subscribed, domains, activeStyles, artifact, chain,
                 returned>>

NoHeader ==
  [styleSheetId |-> 0, origin |-> "none", hasContent |-> FALSE,
   content |-> <<>>, hasParsed |-> FALSE, parsedContent |-> <<>>]

\* no audit has run, nothing was handed to the formatter or to the extraction
NoQuery == [hasName |-> FALSE, name |-> <<>>, hasVal |-> FALSE, val |-> <<>>]
IdleAudit ==
  /\ query = NoQuery
  /\ result = <<>>
  /\ auditResult = [rawValue |-> "unset", urlList |-> <<>>]

IdleExtract ==
  /\ exIn = [content |-> <<>>,
             parsedContent |-> [declarationRange |->
                                  [startLine |-> 0, startColumn |-> 0,
                                   endLine |-> 0, endColumn |-> 0],
                                selector |-> <<>>]]
  /\ exOut = [done |-> FALSE, block |-> <<>>]

IdleProps ==
  /\ treeIn = <<>>
  /\ propsOut = [done |-> FALSE, results |-> <<>>]

\* constructor: this._activeStyles = []; driver and artifact are not set
Init ==
  /\ driver = "undefined"
  /\ subscribed = {}
  /\ domains = {}
  /\ activeStyles = <<>>
  /\ artifact = [kind |-> "unset", items |-> <<>>]
  /\ headers = [h \in Handles |-> NoHeader]
  /\ chain = [h \in Handles |-> "none"]
  /\ nAdded = 0
  /\ begun = 0
  /\ returned = "none"
  /\ removedResolved = {}
  /\ earlyRemoved = {}
  /\ IdleAudit
  /\ IdleExtract
  /\ IdleProps

(* ------------------------------- driver -------------------------------- *)
\* driver.on / driver.off: register and unregister the bound handler
DriverOn(subs, event) == subs \cup {event}
DriverOff(subs, event) == subs \ {event}

(* --------------------------- onStyleSheetAdded -------------------------- *)
\* if (styleHeader.header.origin !== 'regular') return;
IsTrackedAnyOrigin(origin) == TRUE
IsTracked(origin) == origin = "regular"

\* The add notification number nAdded + 1 reaches the subscribed handler with
\* a fresh styleHeader object; a tracked one starts its fetch.
onStyleSheetAdded(id, origin) ==
  LET h == nAdded + 1 IN
  /\ "CSS.styleSheetAdded" \in subscribed
  /\ nAdded < MaxAdds
  /\ nAdded' = h
  /\ headers' = [headers EXCEPT ![h] =
                   [NoHeader EXCEPT !.styleSheetId = id, !.origin = origin]]
  /\ chain' = IF IsTracked(origin) THEN [chain EXCEPT ![h] = "pending"]
              ELSE chain
  /\ UNCHANGED <<driver, subscribed, domains, activeStyles, artifact, begun,
                 returned, removedResolved, earlyRemoved>>
  /\ UNCHANGED <<auditVars, extractVars, propsVars>>

\* this._activeStyles.push(styleHeader)
PushTwice(arr, h) == Append(Append(arr, h), h)
Push(arr, h) == Append(arr, h)

\* .then(content => {...}): the callback stores the text, parses it, stores
\* the declarations and pushes the object, in this order.  A parser exception
\* leaves the callback after the content was stored: nothing is pushed.
\* The result is the object after the callback and whether it was pushed.
ThenCallbackPushFirst(hdr, text) ==
  IF ParseThrows(text)
  THEN [header |-> [hdr EXCEPT !.hasContent = TRUE, !.content = text],
        pushed |-> TRUE]
  ELSE [header |-> [hdr EXCEPT
                      !.hasContent = TRUE, !.content = text,
                      !.hasParsed = TRUE,
                      !.parsedContent = getCSSPropsInStyleSheet(ParseTree(text))],
        pushed |-> TRUE]

ThenCallbackNoParsed(hdr, text) ==
  IF ParseThrows(text)
  THEN [header |-> [hdr EXCEPT !.hasContent = TRUE, !.content = text],
        pushed |-> FALSE]
  ELSE [header |-> [hdr EXCEPT !.hasContent = TRUE, !.content = text],
        pushed |-> TRUE]

ThenCallback(hdr, text) ==
  IF ParseThrows(text)
  THEN [header |-> [hdr EXCEPT !.hasContent = TRUE, !.content = text],
        pushed |-> FALSE]
  ELSE [header |-> [hdr EXCEPT
                      !.hasContent = TRUE, !.content = text,
                      !.hasParsed = TRUE,
                      !.parsedContent = getCSSPropsInStyleSheet(ParseTree(text))],
        pushed |-> TRUE]

\* the fetch of handle h answers with a text and the callback runs
getStyleSheetTextResolved(h, text) ==
  LET r == ThenCallback(headers[h], text) IN
  /\ chain[h] = "pending"
  /\ headers' = [headers EXCEPT ![h] = r.header]
  /\ chain' = [chain EXCEPT ![h] = IF ParseThrows(text) THEN "failed"
                                   ELSE "done"]
  /\ activeStyles' = IF r.pushed THEN Push(activeStyles, h) ELSE activeStyles
  /\ UNCHANGED <<driver, subscribed, domains, artifact, nAdded, begun,
                 returned, removedResolved, earlyRemoved>>
  /\ UNCHANGED <<auditVars, extractVars, propsVars>>

\* the sendCommand promise rejects: the then-callback never runs and nothing
\* handles the rejection
getStyleSheetTextRejected(h) ==
  /\ chain[h] = "pending"
  /\ chain' = [chain EXCEPT ![h] = "failed"]
  /\ UNCHANGED <<driver, subscribed, domains, activeStyles, artifact, headers,
                 nAdded, begun, returned, removedResolved, earlyRemoved>>
  /\ UNCHANGED <<auditVars, extractVars, propsVars>>

(* -------------------------- onStyleSheetRemoved ------------------------- *)
\* for (i ...) if (id matches) { splice(i, 1); break; }
RemoveFirstSpliceRest(arr, id) ==
  IF \E i \in 1..Len(arr) : headers[arr[i]].styleSheetId = id
  THEN LET k == CHOOSE i \in 1..Len(arr) :
                  /\ headers[arr[i]].styleSheetId = id
                  /\ \A j \in 1..(i - 1) : headers[arr[j]].styleSheetId # id
       IN SubSeq(arr, 1, k - 1)
  ELSE arr

RemoveFirstSpliceMinusOne(arr, id) ==
  IF \E i \in 1..Len(arr) : headers[arr[i]].styleSheetId = id
  THEN LET k == CHOOSE i \in 1..Len(arr) :
                  /\ headers[arr[i]].styleSheetId = id
                  /\ \A j \in 1..(i - 1) : headers[arr[j]].styleSheetId # id
       IN SubSeq(arr, 1, k - 1) \o SubSeq(arr, k + 1, Len(arr))
  ELSE SubSeq(arr, 1, Len(arr) - 1)

RemoveAllMatching(arr, id) ==
  SelectSeq(arr, LAMBDA h : headers[h].styleSheetId # id)

RemoveFirst(arr, id) ==
  IF \E i \in 1..Len(arr) : headers[arr[i]].styleSheetId = id
  THEN LET k == CHOOSE i \in 1..Len(arr) :
                  /\ headers[arr[i]].styleSheetId = id
                  /\ \A j \in 1..(i - 1) : headers[arr[j]].styleSheetId # id
       IN SubSeq(arr, 1, k - 1) \o SubSeq(arr, k + 1, Len(arr))
  ELSE arr

onStyleSheetRemoved(id) ==
  /\ "CSS.styleSheetRemoved" \in subscribed
  /\ activeStyles' = RemoveFirst(activeStyles, id)
  /\ removedResolved' = removedResolved \cup
       {h \in Handles : headers[h].styleSheetId = id /\ chain[h] = "done"}
  /\ earlyRemoved' = earlyRemoved \cup
       {h \in Handles : headers[h].styleSheetId = id /\ chain[h] = "pending"}
  /\ UNCHANGED <<driver, subscribed, domains, artifact, headers, chain, nAdded,
                 begun, returned>>
  /\ UNCHANGED <<auditVars, extractVars, propsVars>>

(* --------------------------- beginStylesCollect ------------------------- *)
\* the array the session starts with: the code does not touch _activeStyles
ActiveAtBegin(arr) == arr

beginStylesCollect ==
  /\ begun' = IF begun = 0 THEN 1 ELSE 2
  /\ driver' = "driver"
  /\ domains' = domains \cup {"DOM", "CSS"}
  /\ subscribed' = DriverOn(DriverOn(subscribed, "CSS.styleSheetAdded"),
                            "CSS.styleSheetRemoved")
  /\ activeStyles' = ActiveAtBegin(activeStyles)
  /\ UNCHANGED <<artifact, headers, chain, nAdded, returned, removedResolved,
                 earlyRemoved>>
  /\ UNCHANGED <<auditVars, extractVars, propsVars>>

(* ---------------------------- endStylesCollect -------------------------- *)
\* if (!this.driver || !this._activeStyles.length) reject(...)
EndRejectsNoLengthCheck(drv, arr) == drv = "undefined"
EndRejectsWhilePending(drv, arr) ==
  drv = "undefined" \/ Len(arr) = 0 \/ \E h \in Handles : chain[h] = "pending"
EndRejects(drv, arr) == drv = "undefined" \/ Len(arr) = 0

\* driver.off twice and sendCommand('CSS.disable'), on the success path only
SubscribedAfterEndOffFirst ==
  DriverOff(DriverOff(subscribed, "CSS.styleSheetAdded"),
            "CSS.styleSheetRemoved")

SubscribedAfterEnd ==
  IF EndRejects(driver, activeStyles) THEN subscribed
  ELSE DriverOff(DriverOff(subscribed, "CSS.styleSheetAdded"),
                 "CSS.styleSheetRemoved")

DomainsAfterEnd ==
  IF EndRejects(driver, activeStyles) THEN domains ELSE domains \ {"CSS"}

\* resolve(this._activeStyles) hands out the array itself, not a copy: the
\* collection a caller holds is whatever _activeStyles holds at that moment
ReturnedCollection == activeStyles

\* a direct call of endStylesCollect whose caller keeps the result
endStylesCollect ==
  /\ subscribed' = SubscribedAfterEnd
  /\ domains' = DomainsAfterEnd
  /\ returned' = IF EndRejects(driver, activeStyles) THEN "rejected"
                 ELSE "resolved"
  /\ UNCHANGED <<driver, activeStyles, artifact, headers, chain, nAdded,
                 begun, removedResolved, earlyRemoved>>
  /\ UNCHANGED <<auditVars, extractVars, propsVars>>

(* -------------------------------- afterPass ----------------------------- *)
\* new Map(stylesheets.map(s => [s.content, s])): a key keeps the position of
\* its first insertion and the value of its last one
RECURSIVE Ascending(_)
Ascending(S) ==
  IF S = {} THEN <<>>
  ELSE LET m == CHOOSE x \in S : \A y \in S : x <= y
       IN <<m>> \o Ascending(S \ {m})

LastWithContent(stylesheets, c) ==
  CHOOSE i \in 1..Len(stylesheets) :
    /\ headers[stylesheets[i]].content = c
    /\ \A j \in (i + 1)..Len(stylesheets) : headers[stylesheets[j]].content # c

UniqueByContentFirstWins(stylesheets) ==
  LET firsts == Ascending({i \in 1..Len(stylesheets) :
                   \A j \in 1..(i - 1) : headers[stylesheets[j]].content
                                           # headers[stylesheets[i]].content})
  IN [k \in 1..Len(firsts) |-> stylesheets[firsts[k]]]

\* Array.from(map.values())
UniqueByContent(stylesheets) ==
  LET firsts == Ascending({i \in 1..Len(stylesheets) :
                   \A j \in 1..(i - 1) : headers[stylesheets[j]].content
                                           # headers[stylesheets[i]].content})
  IN [k \in 1..Len(firsts) |->
        stylesheets[LastWithContent(stylesheets,
                                    headers[stylesheets[firsts[k]]].content)]]

\* endStylesCollect().then(build the artifact, _ => this.artifact = -1): the
\* reaction runs in the microtask that follows the call, before any other event
afterPass ==
  /\ subscribed' = SubscribedAfterEnd
  /\ domains' = DomainsAfterEnd
  /\ artifact' = IF EndRejects(driver, activeStyles)
                 THEN [kind |-> "sentinel", items |-> <<>>]
                 ELSE [kind |-> "array", items |-> UniqueByContent(activeStyles)]
  /\ UNCHANGED <<driver, activeStyles, headers, chain, nAdded, begun,
                 returned, removedResolved, earlyRemoved>>
  /\ UNCHANGED <<auditVars, extractVars, propsVars>>

(* ------------------------------ the audits ------------------------------ *)
\* the stylesheet texts the audits are run on
CssMixed ==
  <<"a", "{", "d", "i", "s", "p", "l", "a", "y", ":", "b", "o", "x", ";",
    "d", "i", "s", "p", "l", "a", "y", ":", "f", "l", "e", "x", ";", "c",
    "o", "l", "o", "r", ":", "b", "o", "x", "}">>
CssInline ==
  <<"b", "{", "d", "i", "s", "p", "l", "a", "y", ":", "i", "n", "l", "i",
    "n", "e", "-", "f", "l", "e", "x", ";", "d", "i", "s", "p", "l", "a",
    "y", ":", "f", "l", "e", "x", "}">>
CssBoxy ==
  <<"c", "{", "d", "i", "s", "p", "l", "a", "y", ":", "b", "o", "x", "y",
    "}">>
AuditTexts == {CssMixed, CssInline, CssBoxy}

Display == <<"d", "i", "s", "p", "l", "a", "y">>
Color == <<"c", "o", "l", "o", "r">>
Box == <<"b", "o", "x">>
Flex == <<"f", "l", "e", "x">>
Fle == <<"f", "l", "e">>

\* propName / propVal: an absent or empty string is falsy
QueryOf(hasName, name, hasVal, val) ==
  [hasName |-> hasName, name |-> IF hasName THEN name ELSE <<>>,
   hasVal |-> hasVal, val |-> IF hasVal THEN val ELSE <<>>]

Queries ==
  {QueryOf(hn, n, hv, v) :
     hn \in BOOLEAN, n \in {Display, Color},
     hv \in BOOLEAN, v \in {Box, Flex, Fle}}

\* haystack.indexOf(needle) === 0
StartsWithAnywhere(haystack, needle) ==
  \E k \in 0..(Len(haystack) - Len(needle)) :
    SubSeq(haystack, k + 1, k + Len(needle)) = needle

StartsWith(haystack, needle) ==
  /\ Len(needle) <= Len(haystack)
  /\ SubSeq(haystack, 1, Len(needle)) = needle

\* the callback of parsedContent.filter: usedName, usedVal and the three cases
UsedProperty(item, q) ==
  LET usedName == item.property.name = q.name
      usedVal == StartsWith(item.property.val, q.val)
  IN IF q.hasName /\ ~q.hasVal THEN usedName
     ELSE IF ~q.hasName /\ q.hasVal THEN usedVal
     ELSE IF q.hasName /\ q.hasVal THEN usedName /\ usedVal
     ELSE FALSE

\* s.parsedContent = s.parsedContent.filter(...) for every s of the list: the
\* assignment writes into the record objects themselves
HeapAfterFilter(heap, stylesheets, q) ==
  [h \in DOMAIN heap |->
     IF \E i \in 1..Len(stylesheets) : stylesheets[i] = h
     THEN [heap[h] EXCEPT !.parsedContent =
             SelectSeq(heap[h].parsedContent, LAMBDA item : UsedProperty(item, q))]
     ELSE heap[h]]

\* stylesheetsThatUsedProperty(stylesheets, propName, propVal): the heap after
\* the call and the array it returns
stylesheetsThatUsedProperty(heap, stylesheets, q) ==
  IF ~q.hasName /\ ~q.hasVal
  THEN [heap |-> heap, value |-> <<>>]
  ELSE LET after == HeapAfterFilter(heap, stylesheets, q)
       IN [heap |-> after,
           value |-> SelectSeq(stylesheets,
                               LAMBDA h : Len(after[h].parsedContent) > 0)]

\* getPropertyUse(stylesheets, opt_name, opt_val) of the will-change audit: the
\* same function, its callback falls through to undefined where the other
\* returns false
UsedPropertyOrUndefined(item, q) ==
  LET usedName == item.property.name = q.name
      usedVal == StartsWith(item.property.val, q.val)
  IN IF q.hasName /\ ~q.hasVal THEN usedName
     ELSE IF ~q.hasName /\ q.hasVal THEN usedVal
     ELSE q.hasName /\ q.hasVal /\ usedName /\ usedVal

getPropertyUse(heap, stylesheets, q) ==
  IF ~q.hasName /\ ~q.hasVal
  THEN [heap |-> heap, value |-> <<>>]
  ELSE LET after ==
             [h \in DOMAIN heap |->
                IF \E i \in 1..Len(stylesheets) : stylesheets[i] = h
                THEN [heap[h] EXCEPT !.parsedContent =
                        SelectSeq(heap[h].parsedContent,
                                  LAMBDA item : UsedPropertyOrUndefined(item, q))]
                ELSE heap[h]]
       IN [heap |-> after,
           value |-> SelectSeq(stylesheets,
                               LAMBDA h : Len(after[h].parsedContent) > 0)]

\* item.property.val.indexOf needs a string: every declaration the parser
\* hands out has a colon
AllValuesDefined(stylesheets) ==
  \A i \in 1..Len(stylesheets) :
    \A k \in 1..Len(headers[stylesheets[i]].parsedContent) :
      headers[stylesheets[i]].parsedContent[k].property.valDefined

\* a caller runs the filter over the Styles artifact with a query of its own
FilterCall(q) ==
  LET r == stylesheetsThatUsedProperty(headers, artifact.items, q) IN
  /\ artifact.kind = "array"
  /\ AllValuesDefined(artifact.items)
  /\ query' = q
  /\ headers' = r.heap
  /\ result' = r.value
  /\ UNCHANGED <<driver, subscribed, domains, activeStyles, artifact, chain,
                 nAdded, begun, returned, removedResolved, earlyRemoved,
                 auditResult, extractVars, propsVars>>

\* the same for the will-change audit's copy of the filter
PropertyUseCall(q) ==
  LET r == getPropertyUse(headers, artifact.items, q) IN
  /\ artifact.kind = "array"
  /\ AllValuesDefined(artifact.items)
  /\ query' = q
  /\ headers' = r.heap
  /\ result' = r.value
  /\ UNCHANGED <<driver, subscribed, domains, activeStyles, artifact, chain,
                 nAdded, begun, returned, removedResolved, earlyRemoved,
                 auditResult, extractVars, propsVars>>

(* ------------------------ getFormattedStyleContent ----------------------- *)
Min(a, b) == IF a <= b THEN a ELSE b
Max(a, b) == IF a >= b THEN a ELSE b

\* String.prototype.substring(start, end): both clamped to the string, swapped
\* when start is the larger, zero-based, end exclusive
SubstrLength(str, start, end) ==
  SubSeq(str, Min(start, Len(str)) + 1, Min(Min(start, Len(str)) + end, Len(str)))

Substring(str, start, end) ==
  LET a == Min(Max(start, 0), Len(str))
      b == Min(Max(end, 0), Len(str))
  IN SubSeq(str, Min(a, b) + 1, Max(a, b))

Digits == <<"0", "1", "2", "3", "4", "5", "6", "7", "8", "9">>
IsDigit(c) == \E d \in 1..10 : Digits[d] = c
DigitValue(c) == (CHOOSE d \in 1..10 : Digits[d] = c) - 1

RECURSIVE DecimalValue(_)
DecimalValue(str) ==
  IF str = <<>> THEN 0
  ELSE 10 * DecimalValue(SubSeq(str, 1, Len(str) - 1))
         + DigitValue(str[Len(str)])

\* the integer Array.prototype.slice makes of a string argument: the number a
\* blank or all-digit string denotes, 0 for NaN (texts here carry no sign,
\* fraction, exponent or radix prefix)
ToIntegerOfString(str) ==
  LET t == Trim(str)
  IN IF \A i \in 1..Len(t) : IsDigit(t[i]) THEN DecimalValue(t) ELSE 0

\* Array.prototype.slice(start, end) for non-negative integers
Slice(arr, start, end) == SubSeq(arr, Min(start, Len(arr)) + 1, Min(end, Len(arr)))

\* Array.prototype.join
RECURSIVE Join(_, _)
Join(parts, sep) ==
  IF parts = <<>> THEN <<>>
  ELSE IF Len(parts) = 1 THEN parts[1]
  ELSE parts[1] \o sep \o Join(Tail(parts), sep)

\* template literal ${n} for a non-negative integer
RECURSIVE NumberToString(_)
NumberToString(n) ==
  IF n < 10 THEN <<Digits[n + 1]>>
  ELSE NumberToString(n \div 10) \o <<Digits[(n % 10) + 1]>>

\* let rule: the single-line branch takes a piece of line lineNum; the other
\* branch puts the texts of the start and end lines where slice wants indices
RuleText(content, parsedContent) ==
  LET lines == Split(content, "\n")
      declarationRange == parsedContent.declarationRange
      lineNum == declarationRange.startLine
      start == declarationRange.startColumn
      end == declarationRange.endColumn
  IN IF declarationRange.startLine = declarationRange.endLine
     THEN Substring(lines[lineNum + 1], start, end)
     ELSE LET startLine == lines[declarationRange.startLine + 1]
              endLine == lines[declarationRange.endLine + 1]
              picked == Slice(lines, ToIntegerOfString(startLine),
                              ToIntegerOfString(endLine))
          IN Join([i \in 1..Len(picked) |->
                     Substring(picked[i], declarationRange.startColumn,
                               declarationRange.endColumn)],
                  <<"\n">>)

\* the block: selector, rule and position
BlockOf(selector, rule, lineNum, start, end) ==
  <<"\n">> \o selector \o <<" ", "{", "\n", " ", " ">> \o rule
    \o <<"\n", "}", " ", "(", "l", "i", "n", "e", ":", " ">>
    \o NumberToString(lineNum)
    \o <<",", " ", "r", "o", "w", ":", " ">> \o NumberToString(start)
    \o <<",", " ", "c", "o", "l", ":", " ">> \o NumberToString(end)
    \o <<")">>

getFormattedStyleContent(content, parsedContent) ==
  BlockOf(parsedContent.selector, RuleText(content, parsedContent),
          parsedContent.declarationRange.startLine,
          parsedContent.declarationRange.startColumn,
          parsedContent.declarationRange.endColumn)

(* ----------------------------- specification ---------------------------- *)
\* what the page and the protocol do, whoever ends the session
Events ==
  \/ beginStylesCollect
  \/ \E id \in Ids, origin \in Origins : onStyleSheetAdded(id, origin)
  \/ \E h \in Handles, text \in SheetTexts : getStyleSheetTextResolved(h, text)
  \/ \E h \in Handles : getStyleSheetTextRejected(h)
  \/ \E id \in Ids : onStyleSheetRemoved(id)

\* the tracker driven through beginStylesCollect and endStylesCollect
Next == Events \/ endStylesCollect

Spec == Init /\ [][Next]_vars

\* the tracker driven as a gatherer, through beforePass and afterPass
NextPass == Events \/ afterPass

SpecPass == Init /\ [][NextPass]_vars

TypeOK ==
  /\ driver \in {"undefined", "driver"}
  /\ subscribed \subseteq {"CSS.styleSheetAdded", "CSS.styleSheetRemoved"}
  /\ domains \subseteq {"DOM", "CSS"}
  /\ \A i \in 1..Len(activeStyles) : activeStyles[i] \in 1..nAdded
  /\ artifact.kind \in {"unset", "sentinel", "array"}
  /\ chain \in [Handles -> {"none", "pending", "done", "failed"}]
  /\ nAdded \in 0..MaxAdds
  /\ begun \in 0..2
  /\ returned \in {"none", "rejected", "resolved"}

(* ---------------------------- the audit methods -------------------------- *)
\* typeof artifacts.Styles === 'undefined' || artifacts.Styles === -1
StylesUnavailableOnlyUndefined(art) == art.kind = "unset"
StylesUnavailable(art) == art.kind \in {"unset", "sentinel"}

\* sheets.forEach(sheet => sheet.parsedContent.forEach(props => push {url,
\* misc})); the sheet's handle stands for its header.sourceURL
RECURSIVE UrlList(_, _)
UrlList(heap, sheets) ==
  IF sheets = <<>> THEN <<>>
  ELSE LET sheet == heap[Head(sheets)]
       IN [k \in 1..Len(sheet.parsedContent) |->
             [url |-> Head(sheets),
              misc |-> getFormattedStyleContent(sheet.content,
                                                sheet.parsedContent[k])]]
          \o UrlList(heap, Tail(sheets))

DisplayBox == QueryOf(TRUE, Display, TRUE, Box)

\* what an audit does with the array its filter returned
AuditOutcome(r) ==
  /\ query' = DisplayBox
  /\ headers' = r.heap
  /\ result' = r.value
  /\ auditResult' = [rawValue |-> IF Len(r.value) = 0 THEN "true" ELSE "false",
                     urlList |-> UrlList(r.heap, r.value)]

\* rawValue: -1, debugString: 'Styles gatherer did not run'
AuditDidNotRun ==
  /\ auditResult' = [rawValue |-> "-1", urlList |-> <<>>]
  /\ UNCHANGED <<query, result, headers>>

\* UsesNewFlexBoxAudit.audit(artifacts) with artifacts.Styles = this.artifact
UsesNewFlexBoxAudit ==
  /\ IF StylesUnavailable(artifact) THEN AuditDidNotRun
     ELSE /\ AllValuesDefined(artifact.items)
          /\ AuditOutcome(stylesheetsThatUsedProperty(headers, artifact.items,
                                                      DisplayBox))
  /\ UNCHANGED <<driver, subscribed, domains, activeStyles, artifact, chain,
                 nAdded, begun, returned, removedResolved, earlyRemoved,
                 extractVars, propsVars>>

\* WillChangeAudit.audit(artifacts)
WillChangeAudit ==
  /\ IF StylesUnavailable(artifact) THEN AuditDidNotRun
     ELSE /\ AllValuesDefined(artifact.items)
          /\ AuditOutcome(getPropertyUse(headers, artifact.items, DisplayBox))
  /\ UNCHANGED <<driver, subscribed, domains, activeStyles, artifact, chain,
                 nAdded, begun, returned, removedResolved, earlyRemoved,
                 extractVars, propsVars>>

\* The tracker when a pass is about to end: never started, or started with
\* some stylesheets announced as regular, fetched and parsed, none pending.
InitAudit ==
  \E started \in BOOLEAN, n \in 0..MaxAdds :
    \E texts \in [1..n -> AuditTexts] :
      /\ started \/ n = 0
      /\ driver = IF started THEN "driver" ELSE "undefined"
      /\ subscribed = IF started
                      THEN {"CSS.styleSheetAdded", "CSS.styleSheetRemoved"}
                      ELSE {}
      /\ domains = IF started THEN {"DOM", "CSS"} ELSE {}
      /\ activeStyles = [h \in 1..n |-> h]
      /\ artifact = [kind |-> "unset", items |-> <<>>]
      /\ headers = [h \in Handles |->
                      IF h <= n
                      THEN ThenCallback(
                             [NoHeader EXCEPT
                                !.styleSheetId = ((h - 1) % MaxIds) + 1,
                                !.origin = "regular"],
                             texts[h]).header
                      ELSE NoHeader]
      /\ chain = [h \in Handles |-> IF h <= n THEN "done" ELSE "none"]
      /\ nAdded = n
      /\ begun = IF started THEN 1 ELSE 0
      /\ returned = "none"
      /\ removedResolved = {}
      /\ earlyRemoved = {}
      /\ IdleAudit
      /\ IdleExtract
      /\ IdleProps

NextAudit ==
  \/ afterPass
  \/ UsesNewFlexBoxAudit
  \/ WillChangeAudit
  \/ \E q \in Queries : FilterCall(q)
  \/ \E q \in Queries : PropertyUseCall(q)

\* the end of a pass and the audits that read its artifact
SpecAudit == InitAudit /\ [][NextAudit]_vars

(* ------------------- the formatter and extraction alone ------------------ *)
\* a constructed tracker nobody has started: the two functions below need none
TrackerUntouched ==
  /\ driver = "undefined"
  /\ subscribed = {}
  /\ domains = {}
  /\ activeStyles = <<>>
  /\ artifact = [kind |-> "unset", items |-> <<>>]
  /\ headers = [h \in Handles |-> NoHeader]
  /\ chain = [h \in Handles |-> "none"]
  /\ nAdded = 0
  /\ begun = 0
  /\ returned = "none"
  /\ removedResolved = {}
  /\ earlyRemoved = {}

\* contents of more than one line handed to the formatter
ExThree == <<"a", "{", "b", ":", "\n", "c", "\n", "d", "}">>
ExZero == <<"a", "{", "m", ":", "\n", "0", "\n", "}">>
ExTwoRules == <<"a", "{", "b", ":", "c", "}", "\n", "d", "{", "e", ":", "f", "}">>
ExNumbered == <<"0", "\n", "2", "\n", "x", ":", "y">>
ExContents == {ExThree, ExZero, ExTwoRules, ExNumbered}

\* the declaration ranges that lie inside a content: zero-based lines and
\* columns, the end after the start
RangesIn(content) ==
  LET lines == Split(content, "\n")
  IN {r \in [startLine : 0..(Len(lines) - 1), endLine : 0..(Len(lines) - 1),
             startColumn : 0..Len(content), endColumn : 0..Len(content)] :
        /\ r.startLine <= r.endLine
        /\ r.startColumn <= Len(lines[r.startLine + 1])
        /\ r.endColumn <= Len(lines[r.endLine + 1])
        /\ (r.startLine = r.endLine => r.startColumn < r.endColumn)}

InitExtract ==
  /\ TrackerUntouched
  /\ IdleAudit
  /\ IdleProps
  /\ \E content \in ExContents :
       \E r \in RangesIn(content) :
         exIn = [content |-> content,
                 parsedContent |-> [declarationRange |-> r, selector |-> <<"a">>]]
  /\ exOut = [done |-> FALSE, block |-> <<>>]

\* misc: getFormattedStyleContent(sheet.content, props)
FormatExcerpt ==
  /\ ~exOut.done
  /\ exOut' = [done |-> TRUE,
               block |-> getFormattedStyleContent(exIn.content, exIn.parsedContent)]
  /\ UNCHANGED <<driver, subscribed, domains, activeStyles, artifact, headers,
                 chain, nAdded, begun, returned, removedResolved, earlyRemoved,
                 auditVars, exIn, propsVars>>

NextExtract == FormatExcerpt

\* the formatter over every content and range
SpecExtract == InitExtract /\ [][NextExtract]_vars

\* the texts a declaration node can have: letters, colons and blanks
RECURSIVE TextsOfLength(_)
TextsOfLength(n) ==
  IF n = 0 THEN {<<>>}
  ELSE {t \o <<c>> : t \in TextsOfLength(n - 1), c \in {"a", ":", " "}}

NodeTexts == UNION {TextsOfLength(n) : n \in 1..MaxNodeLen}

\* a declaration node as traverseByType hands it to the callback
NodeOf(text) ==
  [text |-> text,
   declarationRange |-> [startLine |-> 0, startColumn |-> 0,
                         endLine |-> 0, endColumn |-> Len(text)],
   selectors |-> <<"a">>]

PlainNode == NodeOf(<<"b", ":", "c">>)

\* trees of one declaration, and of two with a plain one before or after it
InitProps ==
  /\ TrackerUntouched
  /\ IdleAudit
  /\ IdleExtract
  /\ \E text \in NodeTexts :
       treeIn \in {<<NodeOf(text)>>, <<NodeOf(text), PlainNode>>,
                   <<PlainNode, NodeOf(text)>>}
  /\ propsOut = [done |-> FALSE, results |-> <<>>]

\* parsedContent: getCSSPropsInStyleSheet(parser.parse(content))
ExtractProps ==
  /\ ~propsOut.done
  /\ propsOut' = [done |-> TRUE, results |-> getCSSPropsInStyleSheet(treeIn)]
  /\ UNCHANGED <<driver, subscribed, domains, activeStyles, artifact, headers,
                 chain, nAdded, begun, returned, removedResolved, earlyRemoved,
                 auditVars, extractVars, treeIn>>

NextProps == ExtractProps

\* the extraction over every small tree
SpecProps == InitProps /\ [][NextProps]_vars

(* -------------------------------- claims -------------------------------- *)
Range(arr) == {arr[i] : i \in 1..Len(arr)}
NoRepeats(arr) == \A i, j \in 1..Len(arr) : i # j => arr[i] # arr[j]
Announced == 1..nAdded
Resolved == {h \in Handles : chain[h] = "done"}
Failed == {h \in Handles : chain[h] = "failed"}
OnlyRegular(arr) == \A i \in 1..Len(arr) : headers[arr[i]].origin = "regular"

\* each styleSheetId is announced by at most one add notification
UniqueIds ==
  \A h1, h2 \in Announced :
    h1 # h2 => headers[h1].styleSheetId # headers[h2].styleSheetId

C2_NonRegularIgnored ==
  [][/\ (nAdded' = nAdded + 1 /\ headers'[nAdded'].origin # "regular")
          => /\ UNCHANGED trackerVars
             /\ chain'[nAdded'] = "none"
     /\ OnlyRegular(activeStyles)'
     /\ OnlyRegular(artifact.items)']_vars

\* a non-regular sheet was announced, its id was removed, and a pass ended
\* with an artifact
C2_Witness ==
  /\ \E h \in Announced :
       /\ headers[h].origin # "regular"
       /\ \E g \in removedResolved :
            headers[g].styleSheetId = headers[h].styleSheetId
  /\ artifact.kind = "array"

\* C3: every record in the active set has its content and its declarations
\* stored, and a record whose fetch is still pending is not in the active set.
C3_ActiveArePopulated ==
  /\ \A i \in 1..Len(activeStyles) :
       /\ headers[activeStyles[i]].hasContent
       /\ headers[activeStyles[i]].hasParsed
       /\ headers[activeStyles[i]].parsedContent =
            getCSSPropsInStyleSheet(ParseTree(headers[activeStyles[i]].content))
  /\ \A h \in Handles : chain[h] = "pending" => h \notin Range(activeStyles)

\* one record is active while the fetch of another is still pending
C3_Witness ==
  /\ activeStyles # <<>>
  /\ \E h \in Handles : chain[h] = "pending"

C5_EndRejectsIffNotStartedOrEmpty ==
  [][endStylesCollect =>
       /\ returned' = "rejected" <=> (begun = 0 \/ activeStyles = <<>>)
       /\ returned' = "resolved" <=> (begun > 0 /\ activeStyles # <<>>)]_vars

\* a started session whose only resolved record was removed again ends with
\* the rejection
C5_Witness ==
  /\ returned = "rejected"
  /\ begun > 0
  /\ removedResolved # {}
  /\ activeStyles = <<>>

\* C6: the collection a successful endStylesCollect returned keeps the
\* contents it had when it was returned, whatever happens afterwards.
C6_SnapshotByValue ==
  [][returned = "resolved" => ReturnedCollection' = ReturnedCollection]_vars

\* C7: beginStylesCollect resets the active set: when a session starts on a
\* tracker whose earlier session has ended (nothing is subscribed any more),
\* the active set is empty after the call, so no record of the earlier
\* session is in the new one.
C7_StartResetsActive ==
  [][(beginStylesCollect /\ subscribed = {}) => activeStyles' = <<>>]_vars

\* C8: the artifact of a successful afterPass holds, for each content value in
\* the active set, exactly one record, and that record is the last one of the
\* active set with this content; it holds nothing else.
C8_LastWriteWins ==
  [][(afterPass /\ driver # "undefined" /\ activeStyles # <<>>) =>
       /\ artifact'.kind = "array"
       /\ Range(artifact'.items) \subseteq Range(activeStyles)
       /\ \A i \in 1..Len(activeStyles) :
            LET c == headers[activeStyles[i]].content
                holders == {k \in 1..Len(artifact'.items) :
                              headers[artifact'.items[k]].content = c}
                last == CHOOSE j \in 1..Len(activeStyles) :
                          /\ headers[activeStyles[j]].content = c
                          /\ \A m \in 1..Len(activeStyles) :
                               headers[activeStyles[m]].content = c => m <= j
            IN /\ Cardinality(holders) = 1
               /\ \A k \in holders : artifact'.items[k] = activeStyles[last]]_vars

\* two active records with the same text were collapsed into the later one
C8_Witness ==
  /\ artifact.kind = "array"
  /\ Len(activeStyles) = 2
  /\ headers[activeStyles[1]].content = headers[activeStyles[2]].content
  /\ artifact.items = <<activeStyles[2]>>

\* C9: a record whose fetch or parse failed is never in the active set; the
\* failing step changes nothing but that record's own chain and object (no
\* rejection reaches a caller, the driver and every other record stay as they
\* are); and endStylesCollect still resolves when another record is active.
C9_FailureIsLocal ==
  [][/\ \A h \in Handles :
          (chain[h] = "pending" /\ chain'[h] = "failed")
            => /\ UNCHANGED <<driver, subscribed, domains, activeStyles,
                              artifact, returned>>
               /\ \A g \in Handles \ {h} :
                    chain'[g] = chain[g] /\ headers'[g] = headers[g]
     /\ (Failed \cap Range(activeStyles) = {})'
     /\ (endStylesCollect /\ Failed # {} /\ activeStyles # <<>>)
          => returned' = "resolved"]_vars

\* one fetch or parse failed, another record resolved, and the session ended
\* with success
C9_Witness ==
  /\ Failed # {}
  /\ returned = "resolved" /\ subscribed = {}
  /\ activeStyles # <<>>

\* C10: when every styleSheetId is announced by at most one add notification,
\* no two entries of the active set carry the same id.
C10_ActiveIdsDistinct ==
  UniqueIds =>
    \A i, j \in 1..Len(activeStyles) :
      i # j => headers[activeStyles[i]].styleSheetId
                 # headers[activeStyles[j]].styleSheetId

\* two records with different ids are active after the tracker was started a
\* second time
C10_Witness ==
  /\ UniqueIds
  /\ Len(activeStyles) = 2
  /\ begun = 2

\* C16: a remove notification takes at most one entry out of the active set,
\* the first one in array order whose id is the notified id; every other
\* entry, a later one with the same id included, stays, in the same order.
C16_RemovesFirstMatchOnly ==
  [][\A id \in Ids :
       onStyleSheetRemoved(id) =>
         LET a == activeStyles
             matches == {i \in 1..Len(a) : headers[a[i]].styleSheetId = id}
         IN IF matches = {} THEN activeStyles' = a
            ELSE LET k == CHOOSE i \in matches : \A j \in matches : i <= j
                 IN /\ Len(activeStyles') = Len(a) - 1
                    /\ \A i \in 1..(Len(a) - 1) :
                         activeStyles'[i] = IF i < k THEN a[i] ELSE a[i + 1]]_vars

\* two resolved records carried the removed id: one left the active set, the
\* other is still in it
C16_Witness ==
  \E g, h \in removedResolved :
    /\ g # h
    /\ headers[g].styleSheetId = headers[h].styleSheetId
    /\ activeStyles = <<h>>

\* C18: after a successful endStylesCollect and until the next
\* beginStylesCollect (the driver is set and nothing is subscribed), the
\* tracker is back in the not-started state: endStylesCollect rejects.
C18_EndedIsNotStarted ==
  (driver # "undefined" /\ subscribed = {}) =>
    EndRejects(driver, activeStyles)

\* C19: in a started session with a record in the active set,
\* endStylesCollect is always possible and resolves with the records resolved
\* so far, also while fetches are pending; it leaves the pending chains alone.
C19_EndDoesNotWait ==
  [][/\ (begun > 0 /\ activeStyles # <<>>) => ENABLED endStylesCollect
     /\ (/\ endStylesCollect
         /\ begun > 0 /\ activeStyles # <<>>
         /\ \E h \in Handles : chain[h] = "pending")
          => /\ returned' = "resolved"
             /\ ReturnedCollection' = activeStyles
             /\ Range(activeStyles) \subseteq Resolved
             /\ chain' = chain]_vars

\* the session ended with success while a fetch was still pending
C19_Witness ==
  /\ returned = "resolved" /\ subscribed = {}
  /\ activeStyles # <<>>
  /\ \E h \in Handles : chain[h] = "pending"

\* C20: a rejecting endStylesCollect (no driver, or an empty active set)
\* unsubscribes nothing, disables nothing and leaves the active set as it
\* was, so the handlers beginStylesCollect registered stay subscribed.
C20_FailingEndChangesNothing ==
  [][(endStylesCollect /\ (driver = "undefined" \/ activeStyles = <<>>)) =>
       /\ returned' = "rejected"
       /\ UNCHANGED <<driver, subscribed, domains, activeStyles, artifact,
                      headers, chain>>]_vars

\* a started session ended with the rejection and both handlers are still
\* subscribed
C20_Witness ==
  /\ returned = "rejected"
  /\ begun > 0
  /\ subscribed = {"CSS.styleSheetAdded", "CSS.styleSheetRemoved"}
  /\ "CSS" \in domains

\* ---- the property filter ----
\* the reference of the filter, written from its contract
RefMatches(item, q) ==
  LET nameOk == item.property.name = q.name
      valOk == /\ Len(q.val) <= Len(item.property.val)
               /\ \A k \in 1..Len(q.val) : item.property.val[k] = q.val[k]
  IN (q.hasName \/ q.hasVal) /\ (q.hasName => nameOk) /\ (q.hasVal => valOk)

RECURSIVE RefDeclarations(_, _)
RefDeclarations(decls, q) ==
  IF decls = <<>> THEN <<>>
  ELSE (IF RefMatches(Head(decls), q) THEN <<Head(decls)>> ELSE <<>>)
       \o RefDeclarations(Tail(decls), q)

RECURSIVE RefRecords(_, _, _)
RefRecords(heap, sheets, q) ==
  IF sheets = <<>> \/ (~q.hasName /\ ~q.hasVal) THEN <<>>
  ELSE LET kept == RefDeclarations(heap[Head(sheets)].parsedContent, q)
       IN (IF kept = <<>> THEN <<>>
           ELSE <<[record |-> Head(sheets), content |-> heap[Head(sheets)].content,
                   declarations |-> kept]>>)
          \o RefRecords(heap, Tail(sheets), q)

\* the records a call returned, as the caller reads them
ReturnedRecords(heap, value) ==
  [i \in 1..Len(value) |->
     [record |-> value[i], content |-> heap[value[i]].content,
      declarations |-> heap[value[i]].parsedContent]]

\* C11: for every list of records and every optional name and value, what
\* either copy of the filter returns is the reference: nothing when name and
\* value are both absent; otherwise the input records in input order, each with
\* the declarations, in their order, that have the name (name only), start with
\* the value (value only) or both, records without a match left out.
C11_FilterEqualsReference ==
  [][\A q \in Queries :
       (FilterCall(q) \/ PropertyUseCall(q)) =>
         ReturnedRecords(headers', result') = RefRecords(headers, artifact.items, q)]_vars

\* a value-only call for 'fle' returned the b{display:inline-flex;display:flex}
\* record with display:flex alone
C11_Witness ==
  /\ query = QueryOf(FALSE, <<>>, TRUE, Fle)
  /\ \E i \in 1..Len(result) :
       /\ headers[result[i]].content = CssInline
       /\ Len(headers[result[i]].parsedContent) = 1
       /\ headers[result[i]].parsedContent[1].property.val = Flex

\* C12: the filter does not mutate its input: after a call every input record
\* has the declarations it had before.
C12_FilterLeavesInputAlone ==
  [][\A q \in Queries :
       (FilterCall(q) \/ PropertyUseCall(q)) =>
         \A i \in 1..Len(artifact.items) :
           headers'[artifact.items[i]].parsedContent
             = headers[artifact.items[i]].parsedContent]_vars

\* ---- the sentinel ----
\* C15: a failing end does not propagate: afterPass then sets the artifact to
\* the sentinel -1, and with a successful end never; an audit given the sentinel
\* or no Styles artifact returns rawValue -1 and does not run the filter.
C15_SentinelOnFailure ==
  [][/\ afterPass => (artifact'.kind = "sentinel" <=> EndRejects(driver, activeStyles))
     /\ afterPass => (artifact'.kind = "array" <=> ~EndRejects(driver, activeStyles))
     /\ ((UsesNewFlexBoxAudit \/ WillChangeAudit)
           /\ artifact.kind \in {"unset", "sentinel"}) =>
          /\ auditResult'.rawValue = "-1"
          /\ UNCHANGED <<query, result, headers>>
     /\ ((UsesNewFlexBoxAudit \/ WillChangeAudit) /\ artifact.kind = "array") =>
          auditResult'.rawValue # "-1"]_vars

\* an audit answered -1 for the sentinel a failed end left
C15_Witness ==
  /\ artifact.kind = "sentinel"
  /\ auditResult.rawValue = "-1"
  /\ query = NoQuery

\* ---- the excerpt ----
\* the characters of zero-based line n of a content, without its line feeds
LineOf(content, n) ==
  LET idx == {i \in 1..Len(content) :
                /\ content[i] # "\n"
                /\ Cardinality({j \in 1..(i - 1) : content[j] = "\n"}) = n}
  IN IF idx = {} THEN <<>>
     ELSE LET first == CHOOSE i \in idx : \A j \in idx : i <= j
          IN [k \in 1..Cardinality(idx) |-> content[first + k - 1]]

\* how many characters of a content come before column col of line n
OffsetOf(content, n, col) ==
  IF n = 0 THEN col
  ELSE (CHOOSE i \in 1..Len(content) :
          /\ content[i] = "\n"
          /\ Cardinality({j \in 1..i : content[j] = "\n"}) = n) + col

ExRange == exIn.parsedContent.declarationRange

\* the block with a given rule text in it
ExBlockWith(rule) ==
  BlockOf(exIn.parsedContent.selector, rule, ExRange.startLine,
          ExRange.startColumn, ExRange.endColumn)

\* C14: for a range on one line, startColumn < endColumn within the line, the
\* rule text is the characters of line startLine from offset startColumn up to
\* endColumn, the latter excluded.
C14_SingleLineExcerpt ==
  (exOut.done /\ ExRange.startLine = ExRange.endLine) =>
    exOut.block =
      ExBlockWith([k \in 1..(ExRange.endColumn - ExRange.startColumn) |->
                     LineOf(exIn.content, ExRange.startLine)[ExRange.startColumn + k]])

\* "e:f" was taken out of the second line of a{b:c} / d{e:f}
C14_Witness ==
  /\ exOut.done
  /\ exIn.content = ExTwoRules
  /\ ExRange = [startLine |-> 1, endLine |-> 1, startColumn |-> 2, endColumn |-> 5]
  /\ exOut.block = ExBlockWith(<<"e", ":", "f">>)

\* C13: for a range over several lines the rule text is the start line from
\* startColumn on, every line between, and the end line up to endColumn,
\* joined by line feeds: the content from the start position to the end position.
C13_MultiLineExcerpt ==
  (exOut.done /\ ExRange.startLine < ExRange.endLine) =>
    exOut.block =
      ExBlockWith(SubSeq(exIn.content,
                         OffsetOf(exIn.content, ExRange.startLine, ExRange.startColumn) + 1,
                         OffsetOf(exIn.content, ExRange.endLine, ExRange.endColumn)))

\* ---- declaration extraction ----
\* the first colon of a text that has one
FirstColon(text) ==
  CHOOSE k \in 1..Len(text) :
    text[k] = ":" /\ \A j \in 1..(k - 1) : text[j] # ":"

HasColon(text) == \E k \in 1..Len(text) : text[k] = ":"

\* C17: a declaration's text is split on its first colon only: the name is the
\* trimmed text before it, the value the trimmed text of everything after it,
\* further colons included; declarations are recorded in tree order.
C17_SplitOnFirstColon ==
  propsOut.done =>
    /\ Len(propsOut.results) = Len(treeIn)
    /\ \A i \in 1..Len(treeIn) :
         LET text == treeIn[i].text IN
         HasColon(text) =>
           /\ propsOut.results[i].property.name
                = Trim(SubSeq(text, 1, FirstColon(text) - 1))
           /\ propsOut.results[i].property.val
                = Trim(SubSeq(text, FirstColon(text) + 1, Len(text)))

============================================================================
